---- MODULE Spec2Model ----
(***************************************************************************)
(* Model of the Workers proxy handler, src/src/index.ts (the dashboard     *)
(* copy src/unnamed/part_000 is the same handler without type annotations).*)
(*                                                                         *)
(* One inbound request is delivered to fetch(req); the handler runs to its *)
(* single await (the outbound fetch) and, once that settles, to its        *)
(* return.  Strings are sequences of tokens, each token standing for a run *)
(* of characters, so that slicing, concatenation and URL canonicalisation  *)
(* are computed rather than assumed.                                       *)
(***************************************************************************)
EXTENDS Integers, Sequences, FiniteSets, TLC

VARIABLES
    pc,          \* "idle" | "start" | "awaiting" | "done"
    req,         \* the inbound Request: [method, url, headers, body]
    targetParsed,\* number of times `new URL(targetUrl)` was evaluated (line 36)
    outbound,    \* sequence of outbound requests handed to fetch() (line 87)
    upstream,    \* what the outbound fetch settled with (NoValue before)
    responses    \* sequence of Responses returned by the handler

vars == <<pc, req, targetParsed, outbound, upstream, responses>>

\* Longest inbound header list enumerated.
MaxHeaders == 2

NoValue == "<none>"

(***************************************************************************)
(* Strings                                                                 *)
(***************************************************************************)

\* Mutant: the leading "/" is kept.
Slice1_Keep(s) == s

\* String.prototype.slice(1): drop the first character.  It is only applied
\* to url.pathname, whose first token is the one-character token "/".
Slice1(s) == IF s = <<>> THEN <<>> ELSE Tail(s)

\* Index of the first occurrence of token t in s, 0 when absent.
IndexOf(s, t) ==
    IF \E i \in 1..Len(s) : s[i] = t
    THEN CHOOSE i \in 1..Len(s) : s[i] = t /\ \A j \in 1..(i-1) : s[j] # t
    ELSE 0

\* String.prototype.toLowerCase on the header names and URL schemes in use.
ToLowerCase(n) ==
    CASE n = "Host"             -> "host"
      [] n = "Connection"       -> "connection"
      [] n = "Keep-Alive"       -> "keep-alive"
      [] n = "CF-Connecting-IP" -> "cf-connecting-ip"
      [] n = "CF-Ray"           -> "cf-ray"
      [] n = "Cf-Visitor"       -> "cf-visitor"
      [] n = "X-Custom"         -> "x-custom"
      [] n = "Accept"           -> "accept"
      [] n = "Set-Cookie"       -> "set-cookie"
      [] n = "Content-Type"     -> "content-type"
      [] n = "Access-Control-Allow-Origin"  -> "access-control-allow-origin"
      [] n = "Access-Control-Allow-Methods" -> "access-control-allow-methods"
      [] n = "Access-Control-Allow-Headers" -> "access-control-allow-headers"
      [] n = "Access-Control-Max-Age"       -> "access-control-max-age"
      [] n = "X-Proxied-By"     -> "x-proxied-by"
      [] n = "X-Target-URL"     -> "x-target-url"
      [] n = "HTTP:"            -> "http:"
      [] n = "HTTPS:"           -> "https:"
      [] OTHER                  -> n

(***************************************************************************)
(* URL (the WHATWG URL parser, on token sequences)                         *)
(***************************************************************************)

Origin == "https://proxy.workers.dev"

SchemeTokens == {"http:", "https:", "HTTP:", "HTTPS:", "ftp:", "file:", "mailto:"}
HostTokens == {"api.example.com", "example.com"}
\* Schemes whose URLs need a non-empty host.
HostSchemes == {"http:", "https:", "ftp:"}

Failure == [ok |-> FALSE]

\* new URL(req.url): the runtime hands the handler an absolute URL, which
\* always parses.  origin is the first token, pathname runs to the first "?",
\* search is the "?" and what follows it, or "" when the query is empty.
RequestURL(u) ==
    LET rest == Tail(u)
        q == IndexOf(rest, "?")
    IN [origin |-> u[1],
        pathname |-> IF q = 0 THEN rest ELSE SubSeq(rest, 1, q - 1),
        search |-> IF q = 0 \/ q = Len(rest) THEN <<>>
                   ELSE SubSeq(rest, q, Len(rest))]

\* new URL(s) without a base: s must start with a scheme; the scheme is
\* lower-cased; http, https and ftp need a host (the "//" is optional) and get
\* the path "/" when none is given; other schemes keep the rest as written.
ParseURL(s) ==
    IF s = <<>> \/ s[1] \notin SchemeTokens THEN Failure
    ELSE
      LET scheme == ToLowerCase(s[1])
          r0 == Tail(s)
          r1 == IF r0 # <<>> /\ r0[1] = "//" THEN Tail(r0) ELSE r0
      IN IF scheme \in HostSchemes
         THEN IF r1 = <<>> \/ r1[1] \notin HostTokens THEN Failure
              ELSE LET p0 == Tail(r1)
                       path == IF p0 = <<>> \/ p0[1] = "?" THEN <<"/">> \o p0
                               ELSE p0
                   IN [ok |-> TRUE, protocol |-> scheme, host |-> r1[1],
                       href |-> <<scheme, "//", r1[1]>> \o path]
         ELSE [ok |-> TRUE, protocol |-> scheme, host |-> "",
               href |-> <<scheme>> \o r0]

(***************************************************************************)
(* Headers (the Fetch standard's Headers class)                            *)
(*                                                                         *)
(* A Headers object is a header list: a sequence of <<name, value>> pairs. *)
(* Names compare case-insensitively; a value is a token sequence.          *)
(***************************************************************************)

\* Every lower-cased header name in use, in the byte order the iterator
\* sorts by.
SortedNames ==
    <<"accept", "access-control-allow-headers", "access-control-allow-methods",
      "access-control-allow-origin", "access-control-max-age",
      "cf-connecting-ip", "cf-ray", "cf-visitor", "connection", "content-type",
      "host", "keep-alive", "set-cookie", "x-custom", "x-proxied-by",
      "x-target-url">>

RECURSIVE ValuesOf(_, _)
\* The values of the entries of h named n (case-insensitively), in order.
ValuesOf(h, n) ==
    IF h = <<>> THEN <<>>
    ELSE IF ToLowerCase(Head(h)[1]) = ToLowerCase(n)
         THEN <<Head(h)[2]>> \o ValuesOf(Tail(h), n)
         ELSE ValuesOf(Tail(h), n)

\* Mutant: the iterator yields the last value of a repeated name.
Combine_Last(vs) == vs[Len(vs)]

RECURSIVE Combine(_)
\* Values joined with ", " (0x2C 0x20), as Headers.get and the iterator do.
Combine(vs) ==
    IF Len(vs) = 1 THEN vs[1]
    ELSE vs[1] \o <<", ">> \o Combine(Tail(vs))

HeadersHas(h, n) == ValuesOf(h, n) # <<>>

\* Headers.get(name): the combined value; null is modelled as the empty value.
HeadersGet(h, n) == IF HeadersHas(h, n) THEN Combine(ValuesOf(h, n)) ELSE <<>>

RECURSIVE EntriesFrom(_, _)
\* Headers.entries(), "sort and combine": lower-cased names in sorted order,
\* one entry per name with its values combined, except set-cookie, whose
\* values are yielded one entry each.
EntriesFrom(h, i) ==
    IF i > Len(SortedNames) THEN <<>>
    ELSE LET n == SortedNames[i]
             vs == ValuesOf(h, n)
             here == IF vs = <<>> THEN <<>>
                     ELSE IF n = "set-cookie"
                          THEN [k \in 1..Len(vs) |-> <<n, vs[k]>>]
                          ELSE << <<n, Combine(vs)>> >>
         IN here \o EntriesFrom(h, i + 1)

HeadersEntries(h) == EntriesFrom(h, 1)

RECURSIVE Without(_, _)
\* h without its entries named n.
Without(h, n) ==
    IF h = <<>> THEN <<>>
    ELSE IF ToLowerCase(Head(h)[1]) = ToLowerCase(n) THEN Without(Tail(h), n)
         ELSE <<Head(h)>> \o Without(Tail(h), n)

RECURSIVE SetIn(_, _, _)
\* The first entry of h named n gets the value v and the later ones are
\* removed; without one the entry <<n, v>> is appended.
SetIn(h, n, v) ==
    IF h = <<>> THEN << <<n, v>> >>
    ELSE IF ToLowerCase(Head(h)[1]) = ToLowerCase(n)
         THEN << <<Head(h)[1], v>> >> \o Without(Tail(h), n)
         ELSE <<Head(h)>> \o SetIn(Tail(h), n, v)

\* Headers.set(name, value).  The list is bound by a quantifier so that it is
\* evaluated once, however long the chain of set() calls that built it.
HeadersSet(h, n, v) ==
    CHOOSE r \in { SetIn(list, n, v) : list \in {h} } : TRUE

\* new Headers(init): filled from the entries init yields.
NewHeaders(init) == HeadersEntries(init)

(***************************************************************************)
(* Bodies, JSON and Response                                               *)
(***************************************************************************)

\* A body is null or a byte stream (a token sequence).
NullBody == [present |-> FALSE, bytes |-> <<>>]
Body(bytes) == [present |-> TRUE, bytes |-> bytes]

RECURSIVE JsonMembers(_)
JsonMembers(fields) ==
    IF fields = <<>> THEN <<>>
    ELSE <<"\"", Head(fields)[1], "\":\"">> \o Head(fields)[2] \o <<"\"">>
           \o (IF Len(fields) > 1 THEN <<",">> ELSE <<>>)
           \o JsonMembers(Tail(fields))

\* JSON.stringify of an object of string members, given as <<key, value>>
\* pairs in property order.
JsonStringify(fields) == <<"{">> \o JsonMembers(fields) \o <<"}">>

\* Statuses for which the Fetch standard forbids a body.
NullBodyStatuses == {101, 103, 204, 205, 304}

\* new Response(body, init): status defaults to 200 and statusText to "";
\* init.headers, an object literal, fills the header list in property order.
\* The constructor throws a RangeError unless 200 <= status <= 599 and a
\* TypeError for a body with a null-body status.
NewResponse(body, status, statusText, headers) ==
    IF status < 200 \/ status > 599
    THEN [ok |-> FALSE,
          error |-> [isError |-> TRUE,
                     message |-> <<"status must be in the range 200 to 599">>]]
    ELSE IF body.present /\ status \in NullBodyStatuses
    THEN [ok |-> FALSE,
          error |-> [isError |-> TRUE,
                     message |-> <<"null body status cannot have a body">>]]
    ELSE [ok |-> TRUE,
          response |-> [status |-> status, statusText |-> statusText,
                        headers |-> headers, body |-> body]]

DefaultStatus == 200

(***************************************************************************)
(* The handler's responses                                                 *)
(***************************************************************************)

AllowMethods == <<"GET, POST, PUT, DELETE, PATCH, OPTIONS">>

\* Mutant: the preflight answer without Access-Control-Max-Age.
PreflightResponse_NoMaxAge ==
    NewResponse(NullBody, DefaultStatus, "",
        << <<"Access-Control-Allow-Origin", <<"*">> >>,
           <<"Access-Control-Allow-Methods", AllowMethods>>,
           <<"Access-Control-Allow-Headers", <<"*">> >> >>).response

\* Lines 11-18.
PreflightResponse ==
    NewResponse(NullBody, DefaultStatus, "",
        << <<"Access-Control-Allow-Origin", <<"*">> >>,
           <<"Access-Control-Allow-Methods", AllowMethods>>,
           <<"Access-Control-Allow-Headers", <<"*">> >>,
           <<"Access-Control-Max-Age", <<"86400">> >> >>).response

\* Lines 26-30.
HelloResponse ==
    NewResponse(Body(<<"Hello World">>), DefaultStatus, "",
        << <<"Content-Type", <<"text/plain; charset=utf-8">> >> >>).response

JsonHeaders ==
    << <<"Content-Type", <<"application/json">> >>,
       <<"Access-Control-Allow-Origin", <<"*">> >> >>

\* Lines 38-51.
InvalidUrlResponse(url) ==
    NewResponse(
        Body(JsonStringify(
            << <<"error", <<"Invalid URL">> >>,
               <<"message", <<"Please provide a valid URL to proxy">> >>,
               <<"usage", <<url.origin, "/https://example.com">> >> >>)),
        400, "", JsonHeaders).response

\* Lines 56-68.
InvalidProtocolResponse ==
    NewResponse(
        Body(JsonStringify(
            << <<"error", <<"Invalid Protocol">> >>,
               <<"message", <<"Only HTTP and HTTPS protocols are supported">> >> >>)),
        400, "", JsonHeaders).response

\* Mutant: the catch block never reports the failure's own message.
ProxyErrorResponse_NoMessage(error, target) ==
    NewResponse(
        Body(JsonStringify(
            << <<"error", <<"Proxy Error">> >>,
               <<"message", <<"Failed to proxy request">> >>,
               <<"target", target.href>> >>)),
        502, "", JsonHeaders).response

\* Mutant: the catch block answers 500.
ProxyErrorResponse_Status500(error, target) ==
    NewResponse(
        Body(JsonStringify(
            << <<"error", <<"Proxy Error">> >>,
               <<"message", IF error.isError THEN error.message
                            ELSE <<"Failed to proxy request">> >>,
               <<"target", target.href>> >>)),
        500, "", JsonHeaders).response

\* Lines 113-129: the catch block.
ProxyErrorResponse(error, target) ==
    NewResponse(
        Body(JsonStringify(
            << <<"error", <<"Proxy Error">> >>,
               <<"message", IF error.isError THEN error.message
                            ELSE <<"Failed to proxy request">> >>,
               <<"target", target.href>> >>)),
        502, "", JsonHeaders).response

(***************************************************************************)
(* The handler's stages                                                    *)
(***************************************************************************)

\* Mutant: the query string is not appended.
TargetUrl_PathOnly(url) == Slice1(url.pathname)

\* Line 22.
TargetUrl(url) == Slice1(url.pathname) \o url.search

\* Mutant: ftp is let through.
AllowedProtocols_WithFtp == {"http:", "https:", "ftp:"}

\* Line 55.
AllowedProtocols == {"http:", "https:"}

\* Mutant: the platform headers are not excluded.
ExcludedHeaders_HopByHopOnly == {"host", "connection", "keep-alive"}

\* Line 78.
ExcludedHeaders ==
    {"host", "connection", "keep-alive", "cf-connecting-ip", "cf-ray", "cf-visitor"}

RECURSIVE CopyHeaders(_, _)
\* Lines 76-81: the loop over req.headers.entries(), into proxyHeaders.
CopyHeaders(entries, proxyHeaders) ==
    IF entries = <<>> THEN proxyHeaders
    ELSE LET key == Head(entries)[1]
             value == Head(entries)[2]
         IN CopyHeaders(Tail(entries),
                IF ToLowerCase(key) \notin ExcludedHeaders
                THEN HeadersSet(proxyHeaders, key, value)
                ELSE proxyHeaders)

\* Lines 73-84.
ProxyHeaders(r, target) ==
    HeadersSet(
        CHOOSE copied \in { CopyHeaders(entries, <<>>) :
                              entries \in {HeadersEntries(r.headers)} } : TRUE,
        "Host", <<target.host>>)

\* Mutant: the body is attached whatever the method.
OutboundBody_Always(r) == r.body

\* Line 90.
OutboundBody(r) ==
    IF r.method # "GET" /\ r.method # "HEAD" THEN r.body ELSE NullBody

\* Lines 87-92: the init handed to fetch().
OutboundRequest(r, target) ==
    [url |-> target.href, method |-> r.method,
     headers |-> ProxyHeaders(r, target), body |-> OutboundBody(r),
     redirect |-> "follow"]

\* Lines 95-104.
ResponseHeaders(proxyResponse, target) ==
    LET h0 == NewHeaders(proxyResponse.headers)
        h1 == HeadersSet(h0, "Access-Control-Allow-Origin", <<"*">>)
        h2 == HeadersSet(h1, "Access-Control-Allow-Methods", AllowMethods)
        h3 == HeadersSet(h2, "Access-Control-Allow-Headers", <<"*">>)
        h4 == HeadersSet(h3, "X-Proxied-By", <<"Cloudflare-Workers-Proxy">>)
    IN HeadersSet(h4, "X-Target-URL", target.href)

\* Lines 107-111.
WrappedResponse(proxyResponse, target) ==
    NewResponse(proxyResponse.body, proxyResponse.status,
                proxyResponse.statusText, ResponseHeaders(proxyResponse, target))

(***************************************************************************)
(* Inputs                                                                  *)
(***************************************************************************)

Methods == {"OPTIONS", "GET", "HEAD", "POST"}

\* Request paths: the root, a string that is no URL, proxied targets (one
\* with an upper-case scheme and no path), other schemes, a URL without host.
Paths ==
    { <<"/">>,
      <<"/", "not-a-url">>,
      <<"/", "https:", "//", "api.example.com", "/users/42">>,
      <<"/", "HTTP:", "//", "example.com">>,
      <<"/", "ftp:", "//", "example.com", "/pub">>,
      <<"/", "file:", "///etc/passwd">>,
      <<"/", "https:", "//">> }

\* No query, an empty query ("?"), a query.
Queries == { <<>>, <<"?">>, <<"?", "x=1">> }

RequestUrls == { <<Origin>> \o p \o q : p \in Paths, q \in Queries }

\* Inbound header lines as the client sent them.
HeaderLines ==
    { <<"Host", <<"proxy.workers.dev">> >>,
      <<"Connection", <<"close">> >>,
      <<"Keep-Alive", <<"timeout=5">> >>,
      <<"CF-Connecting-IP", <<"203.0.113.7">> >>,
      <<"CF-Ray", <<"8f1-AMS">> >>,
      <<"Cf-Visitor", <<"{scheme:https}">> >>,
      <<"X-Custom", <<"v1">> >>,
      <<"x-custom", <<"v2">> >>,
      <<"Accept", <<"application/json">> >>,
      <<"Set-Cookie", <<"a=1">> >>,
      <<"Set-Cookie", <<"b=2">> >> }

\* Every inbound header list of at most MaxHeaders lines.
HeaderLists ==
    UNION { [1..n -> HeaderLines] : n \in 0..MaxHeaders }

\* The header lists of the end-to-end scenarios.
SampleHeaderLists ==
    { <<>>,
      << <<"Accept", <<"application/json">> >> >>,
      << <<"Host", <<"proxy.workers.dev">> >>, <<"Connection", <<"close">> >>,
         <<"CF-Ray", <<"8f1-AMS">> >>, <<"X-Custom", <<"v1">> >> >> }

RequestBodies == { NullBody, Body(<<"request-bytes">>) }

Requests ==
    [method : Methods, url : RequestUrls, headers : SampleHeaderLists,
     body : RequestBodies]

\* Proxied requests with every inbound header list.
HeaderRequests ==
    [method : {"POST"},
     url : { <<Origin, "/", "https:", "//", "api.example.com", "/users/42">>,
             <<Origin, "/", "HTTP:", "//", "example.com">> },
     headers : HeaderLists,
     body : {Body(<<"request-bytes">>)}]

\* Upstream answers.  fetch() hands back whatever status line the upstream
\* sent; a response with a null-body status has a null body.
UpstreamStatuses == {200, 204, 404, 503, 999}

StatusText(s) ==
    CASE s = 200 -> "OK"
      [] s = 204 -> "No Content"
      [] s = 404 -> "Not Found"
      [] s = 503 -> "Service Unavailable"
      [] OTHER   -> "Request Denied"

UpstreamHeaderLists ==
    { <<>>,
      << <<"Content-Type", <<"text/html">> >>,
         <<"Set-Cookie", <<"s=1">> >>, <<"Set-Cookie", <<"t=2">> >> >>,
      << <<"Access-Control-Allow-Origin", <<"https://app.example">> >>,
         <<"X-Target-URL", <<"spoofed">> >>,
         <<"x-custom", <<"u1">> >>, <<"X-Custom", <<"u2">> >> >> }

UpstreamResponses ==
    { [status |-> s, statusText |-> StatusText(s), headers |-> h,
       body |-> IF s \in NullBodyStatuses THEN NullBody
                ELSE Body(<<"upstream-bytes">>)] :
      s \in UpstreamStatuses, h \in UpstreamHeaderLists }

\* What fetch() rejects with: a TypeError carrying the transport's message.
NetworkErrors ==
    { [isError |-> TRUE, message |-> <<"DNS lookup failed">>],
      [isError |-> TRUE, message |-> <<"connection refused">>] }

NoRequest ==
    [method |-> NoValue, url |-> <<Origin, "/">>, headers |-> <<>>,
     body |-> NullBody]

NoUpstream == [settled |-> FALSE]

(***************************************************************************)
(* The state machine                                                       *)
(***************************************************************************)

Init ==
    /\ pc = "idle"
    /\ req = NoRequest
    /\ targetParsed = 0
    /\ outbound = <<>>
    /\ upstream = NoUpstream
    /\ responses = <<>>

\* The runtime delivers one inbound request to fetch(req).
Deliver(rs) ==
    /\ pc = "idle"
    /\ \E r \in rs : req' = r
    /\ pc' = "start"
    /\ UNCHANGED <<targetParsed, outbound, upstream, responses>>

Receive == Deliver(Requests)

ReceiveProxied == Deliver(HeaderRequests)

Return(response) ==
    /\ responses' = Append(responses, response)
    /\ pc' = "done"

\* Lines 7-19.
Preflight ==
    /\ pc = "start"
    /\ req.method = "OPTIONS"
    /\ Return(PreflightResponse)
    /\ UNCHANGED <<req, targetParsed, outbound, upstream>>

\* Lines 21-31.
Root ==
    /\ pc = "start"
    /\ req.method # "OPTIONS"
    /\ TargetUrl(RequestURL(req.url)) = <<>>
    /\ Return(HelloResponse)
    /\ UNCHANGED <<req, targetParsed, outbound, upstream>>

\* Lines 33-52.
InvalidUrl ==
    /\ pc = "start"
    /\ req.method # "OPTIONS"
    /\ \E url \in {RequestURL(req.url)} :
       \E targetUrl \in {TargetUrl(url)} :
          /\ targetUrl # <<>>
          /\ ~ParseURL(targetUrl).ok
          /\ Return(InvalidUrlResponse(url))
    /\ targetParsed' = targetParsed + 1
    /\ UNCHANGED <<req, outbound, upstream>>

\* Lines 54-69.
InvalidProtocol ==
    /\ pc = "start"
    /\ req.method # "OPTIONS"
    /\ \E targetUrl \in {TargetUrl(RequestURL(req.url))} :
       \E target \in {ParseURL(targetUrl)} :
          /\ targetUrl # <<>>
          /\ target.ok
          /\ target.protocol \notin AllowedProtocols
          /\ Return(InvalidProtocolResponse)
    /\ targetParsed' = targetParsed + 1
    /\ UNCHANGED <<req, outbound, upstream>>

\* Lines 71-92: build the outbound request and await fetch().
Dispatch ==
    /\ pc = "start"
    /\ req.method # "OPTIONS"
    /\ \E targetUrl \in {TargetUrl(RequestURL(req.url))} :
       \E target \in {ParseURL(targetUrl)} :
          /\ targetUrl # <<>>
          /\ target.ok
          /\ target.protocol \in AllowedProtocols
          /\ outbound' = Append(outbound, OutboundRequest(req, target))
    /\ targetParsed' = targetParsed + 1
    /\ pc' = "awaiting"
    /\ UNCHANGED <<req, upstream, responses>>

\* The target the awaiting handler holds in `target`.
Target == ParseURL(TargetUrl(RequestURL(req.url)))

\* Lines 94-111, and 113-129 when building the wrapped response throws.
FetchResolves ==
    /\ pc = "awaiting"
    /\ \E proxyResponse \in UpstreamResponses :
       \E target \in {Target} :
       \E wrapped \in {WrappedResponse(proxyResponse, target)} :
        /\ upstream' = [settled |-> TRUE, ok |-> TRUE, response |-> proxyResponse]
        /\ IF wrapped.ok THEN Return(wrapped.response)
           ELSE Return(ProxyErrorResponse(wrapped.error, target))
    /\ UNCHANGED <<req, targetParsed, outbound>>

\* Lines 113-129: fetch() rejected.
FetchRejects ==
    /\ pc = "awaiting"
    /\ \E error \in NetworkErrors :
       \E target \in {Target} :
        /\ upstream' = [settled |-> TRUE, ok |-> FALSE, error |-> error]
        /\ Return(ProxyErrorResponse(error, target))
    /\ UNCHANGED <<req, targetParsed, outbound>>

Next ==
    \/ Receive
    \/ Preflight
    \/ Root
    \/ InvalidUrl
    \/ InvalidProtocol
    \/ Dispatch
    \/ FetchResolves
    \/ FetchRejects

Spec == Init /\ [][Next]_vars

\* The synchronous part of the handler, from its entry to a return or to
\* the await.
Handle == Preflight \/ Root \/ InvalidUrl \/ InvalidProtocol \/ Dispatch

\* The awaited fetch() settles, one way or the other.
Settle == FetchResolves \/ FetchRejects

\* The runtime runs the handler it invoked to its await, and the promise
\* fetch() returned settles.
FairSpec == Spec /\ WF_vars(Handle) /\ WF_vars(Settle)

\* The header filter on every inbound header list, for proxied requests.
HeaderNext ==
    \/ ReceiveProxied
    \/ Dispatch
    \/ FetchResolves
    \/ FetchRejects

HeaderSpec == Init /\ [][HeaderNext]_vars

(***************************************************************************)
(* Observations used by the properties                                     *)
(***************************************************************************)

Done == pc = "done"

\* The response the caller received.
Response == responses[1]

\* The member `key` of a JSON object body: the tokens between the quotes
\* that follow "key":, or <<>> when the body has no such member.
JsonGet(body, key) ==
    LET b == body.bytes
        at == { i \in 2..(Len(b) - 1) :
                  b[i] = key /\ b[i-1] = "\"" /\ b[i+1] = "\":\"" }
    IN IF ~body.present \/ at = {} \/ b[1] # "{" THEN <<>>
       ELSE LET i == CHOOSE k \in at : TRUE
                close == CHOOSE j \in (i+2)..Len(b) :
                            b[j] = "\"" /\ \A k \in (i+2)..(j-1) : b[k] # "\""
            IN SubSeq(b, i + 2, close - 1)

\* The names of a header list, lower-cased.
NamesOf(h) == { ToLowerCase(h[i][1]) : i \in 1..Len(h) }

HasHeader(h, n, v) == HeadersHas(h, n) /\ HeadersGet(h, n) = v

IsJsonError(r, status, error) ==
    /\ r.status = status
    /\ HasHeader(r.headers, "content-type", <<"application/json">>)
    /\ HasHeader(r.headers, "access-control-allow-origin", <<"*">>)
    /\ JsonGet(r.body, "error") = <<error>>

IsHello(r) ==
    /\ r.status = 200
    /\ r.body = Body(<<"Hello World">>)
    /\ HeadersEntries(r.headers)
         = << <<"content-type", <<"text/plain; charset=utf-8">> >> >>

\* The effective target, read off the request line as the client sent it:
\* what follows the leading "/", up to a "?" that nothing follows.
EffectiveTarget ==
    LET t == SubSeq(req.url, 3, Len(req.url))
    IN IF t # <<>> /\ t[Len(t)] = "?" THEN SubSeq(t, 1, Len(t) - 1) ELSE t
EmptyTarget == EffectiveTarget = <<>>
\* The request path is "/" and a "?" follows it.
RootWithQuery == Len(req.url) > 2 /\ req.url[3] = "?"
NoDispatch == targetParsed = 0 /\ outbound = <<>> /\ ~upstream.settled

(***************************************************************************)
(* Properties                                                              *)
(***************************************************************************)

\* C1: an OPTIONS request, whatever its path, query, headers or body, is
\* answered with status 200 or 204, no body and the four preflight headers;
\* its target is never parsed and no outbound request is issued for it.
C1_Preflight ==
    req.method = "OPTIONS" =>
        /\ NoDispatch
        /\ pc \in {"start", "done"}
        /\ Done =>
            /\ Len(responses) = 1
            /\ Response.status \in {200, 204}
            /\ ~Response.body.present
            /\ HasHeader(Response.headers, "access-control-allow-origin", <<"*">>)
            /\ HasHeader(Response.headers, "access-control-allow-methods",
                         <<"GET, POST, PUT, DELETE, PATCH, OPTIONS">>)
            /\ HasHeader(Response.headers, "access-control-allow-headers", <<"*">>)
            /\ HasHeader(Response.headers, "access-control-max-age", <<"86400">>)

\* An OPTIONS request that names a proxied target and carries a body was answered.
C1_Witness ==
    /\ Done
    /\ req.method = "OPTIONS"
    /\ req.body.present
    /\ Len(req.url) > 2 /\ req.url[3] = "https:"

\* C2: an outbound request is issued only for a target that parsed with the
\* scheme http or https; a non-empty target that does not parse is answered
\* 400 "Invalid URL" with the usage hint <origin>/https://example.com, one
\* that parses with another scheme 400 "Invalid Protocol", and neither
\* issues an outbound request.
C2_TargetValidation ==
    LET target == ParseURL(EffectiveTarget)
    IN /\ outbound # <<>> =>
            /\ target.ok
            /\ target.protocol \in {"http:", "https:"}
            /\ \A i \in 1..Len(outbound) :
                   outbound[i].url[1] \in {"http:", "https:"}
       /\ (Done /\ req.method # "OPTIONS" /\ ~EmptyTarget /\ ~target.ok) =>
            /\ IsJsonError(Response, 400, "Invalid URL")
            /\ JsonGet(Response.body, "usage") = <<Origin, "/https://example.com">>
            /\ outbound = <<>>
       /\ (Done /\ req.method # "OPTIONS" /\ ~EmptyTarget /\ target.ok
              /\ target.protocol \notin {"http:", "https:"}) =>
            /\ IsJsonError(Response, 400, "Invalid Protocol")
            /\ outbound = <<>>

\* An ftp target was refused.
C2_Witness ==
    /\ Done
    /\ req.method = "POST"
    /\ Len(req.url) > 2 /\ req.url[3] = "ftp:"
    /\ Response.status = 400

\* C3: a dispatched request makes exactly one outbound attempt, and when
\* that attempt fails the response is 502 JSON with error "Proxy Error", the
\* target's href and the failure's message.
C3_DispatchFailure ==
    /\ Len(outbound) <= 1
    /\ pc = "awaiting" => Len(outbound) = 1
    /\ upstream.settled => Len(outbound) = 1 /\ Done
    /\ (Done /\ upstream.settled /\ ~upstream.ok) =>
        /\ Len(responses) = 1
        /\ IsJsonError(Response, 502, "Proxy Error")
        /\ JsonGet(Response.body, "target") = outbound[1].url
        /\ JsonGet(Response.body, "target") = ParseURL(EffectiveTarget).href
        /\ JsonGet(Response.body, "message") = upstream.error.message

\* The fetch of a target written with an upper-case scheme was rejected.
C3_Witness ==
    /\ Done
    /\ upstream.settled /\ ~upstream.ok
    /\ req.url[3] = "HTTP:"
    /\ upstream.error.message = <<"connection refused">>

\* The five names the success path sets, lower-cased.
OverlaidNames ==
    {"access-control-allow-origin", "access-control-allow-methods",
     "access-control-allow-headers", "x-proxied-by", "x-target-url"}

\* C4: when the dispatch returns an upstream response of any status, the
\* final response has the upstream's status, status text and body, and its
\* headers are the upstream's with the five overlaid entries replacing any
\* upstream value of those names.
C4_UpstreamPassthrough ==
    (Done /\ upstream.settled /\ upstream.ok) =>
        LET up == upstream.response
            h == Response.headers
        IN /\ Response.status = up.status
           /\ Response.statusText = up.statusText
           /\ Response.body = up.body
           /\ HasHeader(h, "access-control-allow-origin", <<"*">>)
           /\ HasHeader(h, "access-control-allow-methods",
                        <<"GET, POST, PUT, DELETE, PATCH, OPTIONS">>)
           /\ HasHeader(h, "access-control-allow-headers", <<"*">>)
           /\ HasHeader(h, "x-proxied-by", <<"Cloudflare-Workers-Proxy">>)
           /\ HasHeader(h, "x-target-url", outbound[1].url)
           /\ NamesOf(h) = NamesOf(up.headers) \cup OverlaidNames
           /\ \A n \in NamesOf(up.headers) \ OverlaidNames :
                  ValuesOf(HeadersEntries(h), n)
                    = ValuesOf(HeadersEntries(up.headers), n)

\* The inbound header lines whose name is n, case-insensitively.
InboundValues(n) == ValuesOf(req.headers, n)

C6_MethodAndBody ==
    \A i \in 1..Len(outbound) :
        /\ outbound[i].method = req.method
        /\ outbound[i].url = ParseURL(EffectiveTarget).href
        /\ req.method \in {"GET", "HEAD"} => ~outbound[i].body.present
        /\ req.method \notin {"GET", "HEAD"} => outbound[i].body = req.body

\* A GET that carried a body was dispatched.
C6_Witness ==
    /\ outbound # <<>>
    /\ req.method = "GET"
    /\ req.body.present

\* C7: a non-OPTIONS request with an empty effective target is answered
\* exactly 200 "Hello World" as text/plain; charset=utf-8; the target is not
\* parsed and no outbound request is issued.
C7_Root ==
    (req.method \in Methods \ {"OPTIONS"} /\ EmptyTarget) =>
        /\ NoDispatch
        /\ pc \in {"start", "done"}
        /\ Done => Len(responses) = 1 /\ IsHello(Response)

\* POST / was answered.
C7_Witness ==
    /\ Done
    /\ req.method = "POST"
    /\ req.url = <<Origin, "/">>

\* C8 as stated: GET /?... is answered 200 "Hello World", like GET /.
C8_RootQueryIsHello ==
    (Done /\ req.method = "GET" /\ RootWithQuery) => IsHello(Response)

\* C8 amended: GET /? (an empty query) is answered 200 "Hello World" like
\* GET /; GET /?q with a query q is the target "?q", which is no URL, and is
\* answered 400 "Invalid URL" without an outbound request.
C8_RootQuery ==
    (Done /\ req.method = "GET" /\ RootWithQuery) =>
        /\ outbound = <<>>
        /\ IF Len(req.url) = 3 THEN IsHello(Response)
           ELSE IsJsonError(Response, 400, "Invalid URL")

\* GET /?x=1 was answered.
C8_Witness ==
    /\ Done
    /\ req.method = "GET"
    /\ req.url = <<Origin, "/", "?", "x=1">>

\* What every returned response is: one of the handler's six outcomes.
WellFormed(r) ==
    \/ req.method = "OPTIONS" /\ r.status = 200 /\ ~r.body.present
    \/ req.method # "OPTIONS" /\ EmptyTarget /\ IsHello(r)
    \/ req.method # "OPTIONS" /\ ~EmptyTarget /\ ~upstream.settled
         /\ (IsJsonError(r, 400, "Invalid URL")
              \/ IsJsonError(r, 400, "Invalid Protocol"))
    \/ upstream.settled /\ upstream.ok
         /\ r.status = upstream.response.status
         /\ HeadersHas(r.headers, "x-proxied-by")
    \/ upstream.settled /\ IsJsonError(r, 502, "Proxy Error")

\* A failure path: the target was refused, the fetch was rejected, or
\* wrapping the upstream response threw.
FailurePath ==
    \/ req.method # "OPTIONS" /\ ~EmptyTarget /\ outbound = <<>>
    \/ upstream.settled /\ ~upstream.ok
    \/ upstream.settled /\ upstream.ok
         /\ ~WrappedResponse(upstream.response, ParseURL(EffectiveTarget)).ok

C9_Safe ==
    /\ Len(responses) <= 1
    /\ Done <=> Len(responses) = 1
    /\ Done => WellFormed(Response)
    /\ (Done /\ FailurePath) =>
          /\ Response.status \in {400, 502}
          /\ HasHeader(Response.headers, "content-type", <<"application/json">>)
          /\ JsonGet(Response.body, "error") # <<>>

\* C9: every inbound request eventually yields exactly one response, on
\* every path the handler returns rather than throws, and every failure
\* path ends in a JSON error response with status 400 or 502.
C9_OneResponse ==
    /\ []C9_Safe
    /\ (pc = "start") ~> (Done /\ Len(responses) = 1)

\* The upstream answered and wrapping its response threw: the caller got 502.
C9_Witness ==
    /\ Done
    /\ upstream.settled /\ upstream.ok
    /\ Response.status = 502
    /\ upstream.response.status # 502

ExcludedNamesOfClaim ==
    {"host", "connection", "keep-alive", "cf-connecting-ip", "cf-ray", "cf-visitor"}

RECURSIVE JoinedWithComma(_)
\* v1, v2, ..., vn as one value.
JoinedWithComma(vs) ==
    IF vs = <<>> THEN <<>>
    ELSE IF Len(vs) = 1 THEN vs[1]
    ELSE JoinedWithComma(SubSeq(vs, 1, Len(vs) - 1)) \o <<", ">> \o vs[Len(vs)]

\* The non-excluded names that came in more than once.
Repeated ==
    { n \in NamesOf(req.headers) \ ExcludedNamesOfClaim :
        Len(InboundValues(n)) > 1 }

\* C10 as stated: a repeated non-excluded name goes out once, with the
\* value of its last inbound occurrence.
C10_LastValueWins ==
    outbound # <<>> =>
        \A n \in Repeated :
            ValuesOf(outbound[1].headers, n)
              = << InboundValues(n)[Len(InboundValues(n))] >>

\* C10 amended: a repeated non-excluded name goes out once, and its value is
\* its inbound values joined with ", " in inbound order; only set-cookie,
\* whose values the iterator yields one by one, goes out with its last value.
C10_RepeatedJoined ==
    outbound # <<>> =>
        \A n \in Repeated :
            ValuesOf(outbound[1].headers, n)
              = IF n = "set-cookie"
                THEN << InboundValues(n)[Len(InboundValues(n))] >>
                ELSE << JoinedWithComma(InboundValues(n)) >>

\* X-Custom: v1 and x-custom: v2 came in; the request went out.
C10_Witness ==
    /\ outbound # <<>>
    /\ InboundValues("x-custom") = << <<"v1">>, <<"v2">> >>

====
